---- MODULE Spec2Model ----
(***************************************************************************)
(* Model of cert_manager.py: the batch loop of main() and the pipeline     *)
(* stages it drives (generate_csr, create_origin_certificate,              *)
(* get_certificate_fingerprint, save_to_cert_dir, _write_file).            *)
(*                                                                         *)
(* The environment (openssl, the CA, the filesystem, sudo) answers each    *)
(* call with one of the outcomes the call can have; a Python exception     *)
(* that no handler catches ends the run (pc = "crashed").                  *)
(***************************************************************************)
EXTENDS Integers, Sequences, FiniteSets, TLC

\* ---------------------------------------------------------------- bounds
MaxUnits == 2      \* domains in one run
MaxHosts == 2      \* hostnames of one domain
MaxFaults == 1     \* environment calls of one run that do not answer "ok"
MaxBytes == 2      \* bytes of the digest in one line of openssl's output
MaxCalls == 2      \* calls of _write_file with the same path and content
MaxOldHosts == 1   \* hostname directories of the old layout below /etc/cert

VARIABLES
    nUnits,         \* len(domains)
    idx,            \* position of the for loop over domains (1-based)
    pc,             \* where main() stands
    hostnames,      \* the current unit's hostnames (line 306)
    cert,           \* result of create_origin_certificate (line 332)
    fingerprint,    \* result of get_certificate_fingerprint (line 340)
    hIdx,           \* position of the for loop over hostnames (line 347)
    fIdx,           \* which of the three files save_to_cert_dir is at
    success_count,  \* line 294
    fail_count,     \* line 295
    dirs,           \* host directories that exist
    files,          \* files below the base directory: path and content
    temps,          \* files left in temporary directories ("tmp": the system's; "scratch": generate_csr's)
    lastWrite,      \* the last call of _write_file: what it was given and did
    hist,           \* per unit: what was called and counted for it
    faults          \* environment calls so far that did not answer "ok"

\* get_certificate_fingerprint, lines 181-189, on one line of output
VARIABLES
    fpInput,        \* the parts the line is made of
    fpPc,           \* "stdout", "stripped", "extracted", "returned"
    fpValue         \* result.stdout, fingerprint_line, fingerprint (characters)

fpVars == <<fpInput, fpPc, fpValue>>

\* _write_file, lines 240-259, called repeatedly for one target path
VARIABLES
    wfTarget,       \* the file at the path: whether it exists, its content, whether the caller may write it
    wfDirWritable,  \* whether the caller may create files in the directory
    wfBytes,        \* the content every call is given
    wfCalls         \* the calls so far: what the environment answered, what the call did and reported

wfVars == <<wfTarget, wfDirWritable, wfBytes, wfCalls>>

\* migrate_v1_to_v2.py
VARIABLES
    migRepaired,    \* FALSE: the file as it is (line 325 does not compile); TRUE: line 325 read as the else of line 320
    migDryRun,      \* DRY_RUN, line 29
    migPc,          \* where main() of the migration stands
    migHost,        \* position of the loop of line 299
    migExt,         \* position of the loop of line 304
    migDirs,        \* directories that exist
    migFiles,       \* files that exist: path and content
    migBefore,      \* directories and files when the script was started
    migConsent      \* paths for which the user was asked whether to overwrite and answered yes

migVars == <<migRepaired, migDryRun, migPc, migHost, migExt, migDirs, migFiles, migBefore,
             migConsent>>
otherVars == <<fpVars, wfVars, migVars>>

vars == <<nUnits, idx, pc, hostnames, cert, fingerprint, hIdx, fIdx,
          success_count, fail_count, dirs, files, temps, lastWrite, hist, faults,
          fpInput, fpPc, fpValue,
          wfTarget, wfDirWritable, wfBytes, wfCalls,
          migRepaired, migDryRun, migPc, migHost, migExt, migDirs, migFiles, migBefore,
          migConsent>>

\* ---------------------------------------------------------------- values
Units == 1..MaxUnits
NoContent == <<"none", 0>>
CertOf(k) == <<"certificate", k>>
KeyOf(k) == <<"private_key", k>>
FingerprintOf(k) == <<"fingerprint", k>>

\* None, as create_origin_certificate returns it (lines 156, 161)
NoCert == [present |-> FALSE, certificate |-> NoContent, private_key |-> NoContent]

\* Python truthiness of the fingerprint (None is falsy)
Truthy(fp) == fp[1] = "fingerprint"

HostList(n) == [i \in 1..n |-> i]

NoWrite == [called |-> FALSE, path |-> <<>>, content |-> NoContent,
            primary |-> "none", tmp |-> "none", cp |-> "none", unlink |-> "none",
            ret |-> "none", written |-> FALSE, sudoCp |-> 0,
            tmpCreated |-> FALSE, tmpLeft |-> FALSE]

\* nhosts: the length of the list the loop of line 347 runs over;
\* saves: one record for each call of save_to_cert_dir, in call order
NoHist == [csr |-> 0, csrOutcome |-> "none", ca |-> 0, caOutcome |-> "none", fp |-> 0, fpOutcome |-> "none",
           valid |-> "none", nhosts |-> 0, succ |-> 0, fail |-> 0, saveFalse |-> 0,
           writes |-> 0, saves |-> <<>>]

\* ---------------------------------------------------------------- paths
BaseDir == "base"

\* save_to_cert_dir line 199
host_specific_dir(domain, hostname) == <<BaseDir, domain, hostname>>

\* save_to_cert_dir lines 217-230: {dir}/{domain}.{hostname}.{ext}
Exts == <<"crt", "key", "fingerprint">>
file_path_mutant(domain, hostname, i) ==
    [dir |-> <<BaseDir, hostname>>, name |-> <<hostname, Exts[i]>>]
file_path(domain, hostname, i) ==
    [dir |-> host_specific_dir(domain, hostname), name |-> <<domain, hostname, Exts[i]>>]


\* ---------------------------------------------------------------- environment
\* What one call of the environment can answer. A call whose first answer is
\* not "ok" counts against MaxFaults.
UnitConfigs ==
    {[cfg |-> FALSE, key |-> FALSE, nhosts |-> 0]}
    \cup [cfg : {TRUE}, key : BOOLEAN, nhosts : 0..MaxHosts]

\* generate_csr: "openssl genrsa" (line 98), the config file (line 105),
\* "openssl req" (line 122), reading the results back (lines 128-132)
CsrOutcomes == {"ok", "genrsa_exit_nonzero", "conf_write_error", "req_exit_nonzero",
                "read_error"}
CaOutcomes == {"ok", "non200", "success_false", "transport_error"}
FpOutcomes == {"ok", "exit_nonzero", "tmp_write_error"}
MkdirEnvs ==
    {[primary |-> "ok", sudo |-> "none"],
     [primary |-> "oserr", sudo |-> "none"],
     [primary |-> "perm", sudo |-> "ok"],
     [primary |-> "perm", sudo |-> "fail"]}
\* primary: the open/write of line 243; tmp, cp, unlink: what the temporary
\* file, "sudo cp" and os.unlink would answer if the fallback asked them
\* ("none": not stated, taken as a failure if asked)
WriteEnvs ==
    {[primary |-> "ok", tmp |-> "none", cp |-> "none", unlink |-> "none"],
     [primary |-> "oserr", tmp |-> "ok", cp |-> "ok", unlink |-> "ok"],
     [primary |-> "perm", tmp |-> "create_error", cp |-> "none", unlink |-> "none"],
     [primary |-> "perm", tmp |-> "write_error", cp |-> "none", unlink |-> "none"],
     [primary |-> "perm", tmp |-> "ok", cp |-> "fail", unlink |-> "none"],
     [primary |-> "perm", tmp |-> "ok", cp |-> "ok", unlink |-> "fail"],
     [primary |-> "perm", tmp |-> "ok", cp |-> "ok", unlink |-> "ok"]}

Cost(isOk) == IF isOk THEN 0 ELSE 1
CanAfford(isOk) == faults + Cost(isOk) <= MaxFaults

\* ---------------------------------------------------------------- generate_csr
\* lines 97-132: the files in temp_dir when the with block of line 95 is left,
\* for unit k and outcome o
scratch_files(o, k) ==
    LET F(name, whole) == [dir |-> "scratch", content |-> <<name, k>>, complete |-> whole]
        key(whole) == [dir |-> "scratch", content |-> KeyOf(k), complete |-> whole]
    IN IF o = "genrsa_exit_nonzero" THEN {F("temp_dir", TRUE), key(FALSE)}
       ELSE IF o = "conf_write_error" THEN {F("temp_dir", TRUE), key(TRUE), F("csr.conf", FALSE)}
       ELSE IF o = "req_exit_nonzero"
       THEN {F("temp_dir", TRUE), key(TRUE), F("csr.conf", TRUE), F("request.csr", FALSE)}
       ELSE {F("temp_dir", TRUE), key(TRUE), F("csr.conf", TRUE), F("request.csr", TRUE)}

\* line 95: leaving "with tempfile.TemporaryDirectory()" removes the directory
\* and what is in it, on return and on exception
tempdir_cleanup_mutant(fs) == fs
tempdir_cleanup(fs) == {}

\* ---------------------------------------------------------------- _write_file
\* line 246: the handler of the direct write catches PermissionError only
write_file_catches_mutant(primary) == primary \in {"perm", "oserr"}
write_file_catches(primary) == primary = "perm"

\* lines 249-259: the fallback through a temporary file and "sudo cp"
write_file_fallback_mutant(env) ==
    IF env.tmp # "ok"
    THEN [ret |-> "False", written |-> FALSE, sudoCp |-> 0,
          tmpCreated |-> (env.tmp = "write_error"), tmpLeft |-> (env.tmp = "write_error")]
    ELSE IF env.cp # "ok"
    THEN [ret |-> "False", written |-> FALSE, sudoCp |-> 2,
          tmpCreated |-> TRUE, tmpLeft |-> TRUE]
    ELSE [ret |-> "True", written |-> TRUE, sudoCp |-> 1,
          tmpCreated |-> TRUE, tmpLeft |-> (env.unlink # "ok")]
write_file_fallback(env) ==
    IF env.tmp # "ok"
    THEN \* NamedTemporaryFile or temp_file.write raised OSError (line 250, 251):
         \* a file that was created stays (delete=False)
         [ret |-> "False", written |-> FALSE, sudoCp |-> 0,
          tmpCreated |-> (env.tmp = "write_error"), tmpLeft |-> (env.tmp = "write_error")]
    ELSE IF env.cp # "ok"
    THEN \* line 253 raised CalledProcessError: line 254 is skipped
         [ret |-> "False", written |-> FALSE, sudoCp |-> 1,
          tmpCreated |-> TRUE, tmpLeft |-> TRUE]
    ELSE IF env.unlink # "ok"
    THEN \* line 254 raised OSError
         [ret |-> "False", written |-> TRUE, sudoCp |-> 1,
          tmpCreated |-> TRUE, tmpLeft |-> TRUE]
    ELSE [ret |-> "True", written |-> TRUE, sudoCp |-> 1,
          tmpCreated |-> TRUE, tmpLeft |-> FALSE]

\* lines 240-259
write_file_result(env) ==
    IF env.primary = "ok"
    THEN [ret |-> "True", written |-> TRUE, sudoCp |-> 0,
          tmpCreated |-> FALSE, tmpLeft |-> FALSE]
    ELSE IF write_file_catches(env.primary)
    THEN write_file_fallback(env)
    ELSE [ret |-> "raise", written |-> FALSE, sudoCp |-> 0,
          tmpCreated |-> FALSE, tmpLeft |-> FALSE]

\* ---------------------------------------------------------------- main: decisions
\* lines 299, 312, 317: the unit has a configuration, a credential and hostnames
unit_valid_mutant(u) == u.cfg /\ u.nhosts > 0
unit_valid(u) == u.cfg /\ u.key /\ u.nhosts > 0

\* lines 154, 159: the CA's answer is taken as a certificate
ca_response_ok_mutant(outcome) == outcome \in {"ok", "success_false"}
ca_response_ok(outcome) == outcome = "ok"

\* lines 334, 356-358: the branch that counts the unit
main_unit_succeeded_mutant(certv, fp, saveFalse) == certv.present /\ saveFalse = 0
main_unit_succeeded(certv, fp, saveFalse) == certv.present

\* line 345: the certificate is saved when it carries a key and the fingerprint is truthy
main_saves_mutant(certv, fp) == certv.private_key # NoContent
main_saves(certv, fp) == certv.private_key # NoContent /\ Truthy(fp)

\* lines 221-232: "if not self._write_file(...): return False"
save_stops_mutant(ret) == FALSE
save_stops(ret) == ret = "False"

\* lines 202-214: the directory of the hostname. existed: os.path.exists (line 202);
\* e: what os.makedirs and "sudo mkdir -p" answer. direct, sudo: how often each was
\* invoked
mkdir_result_mutant(existed, e) ==
    IF existed
    THEN [direct |-> 0, sudo |-> 0, ret |-> "ok", created |-> FALSE]
    ELSE IF e.primary = "ok"
    THEN [direct |-> 1, sudo |-> 0, ret |-> "ok", created |-> TRUE]
    ELSE IF e.sudo = "ok"
    THEN [direct |-> 1, sudo |-> 1, ret |-> "ok", created |-> TRUE]
    ELSE [direct |-> 1, sudo |-> 1, ret |-> "ok", created |-> FALSE]
mkdir_result(existed, e) ==
    IF existed
    THEN [direct |-> 0, sudo |-> 0, ret |-> "ok", created |-> FALSE]
    ELSE IF e.primary = "ok"
    THEN [direct |-> 1, sudo |-> 0, ret |-> "ok", created |-> TRUE]
    ELSE IF e.primary # "perm"
    THEN \* line 206 catches PermissionError only
         [direct |-> 1, sudo |-> 0, ret |-> "raise", created |-> FALSE]
    ELSE IF e.sudo = "ok"
    THEN [direct |-> 1, sudo |-> 1, ret |-> "ok", created |-> TRUE]
    ELSE \* line 212: CalledProcessError
         [direct |-> 1, sudo |-> 1, ret |-> "False", created |-> FALSE]

\* lines 332, 357-358: what follows a None from create_origin_certificate
after_rejection_mutant == "retry"
after_rejection == "next_unit"

\* ---------------------------------------------------------------- state
\* no line of output is being parsed
NoFpInput == [lead |-> <<>>, label |-> <<>>, gap |-> <<>>, digest |-> <<>>, trail |-> <<>>]
FpIdle == fpInput = NoFpInput /\ fpPc = "none" /\ fpValue = <<>>

\* no file is being written apart from main()
NoTarget == [exists |-> FALSE, content |-> <<>>, writable |-> FALSE]
WfIdle == wfTarget = NoTarget /\ wfDirWritable = FALSE /\ wfBytes = <<>> /\ wfCalls = <<>>

\* the migration script is not running
MigIdle ==
    /\ migRepaired = FALSE /\ migDryRun = FALSE /\ migPc = "none"
    /\ migHost = 0 /\ migExt = 0
    /\ migDirs = {} /\ migFiles = {} /\ migBefore = [dirs |-> {}, files |-> {}]
    /\ migConsent = {}

Init ==
    /\ nUnits \in 1..MaxUnits
    /\ idx = 1
    /\ pc = "loop"
    /\ hostnames = <<>>
    /\ cert = NoCert
    /\ fingerprint = NoContent
    /\ hIdx = 0
    /\ fIdx = 0
    /\ success_count = 0
    /\ fail_count = 0
    /\ dirs = {}
    /\ files = {}
    /\ temps = {}
    /\ lastWrite = NoWrite
    /\ hist = [k \in Units |-> NoHist]
    /\ faults = 0
    /\ FpIdle
    /\ WfIdle
    /\ MigIdle

\* An exception no handler catches leaves main(): nothing after it runs
Crash ==
    /\ pc' = "crashed"
    /\ UNCHANGED <<idx, hostnames, cert, fingerprint, hIdx, fIdx, success_count, fail_count>>

\* The end of one iteration of the loop of line 297, counted in one of the
\* counters (lines 301, 314, 319, 356, 358); h is the unit's record so far
NextUnit_mutant(succeeded, h) ==
    /\ success_count' = success_count + (IF succeeded THEN 1 ELSE 0)
    /\ fail_count' = fail_count
    /\ hist' = [hist EXCEPT ![idx] =
                   [h EXCEPT !.succ = @ + (IF succeeded THEN 1 ELSE 0),
                             !.fail = @ + (IF succeeded THEN 0 ELSE 1)]]
    /\ idx' = idx + 1
    /\ pc' = "loop"
    /\ hostnames' = <<>>
    /\ cert' = NoCert
    /\ fingerprint' = NoContent
    /\ hIdx' = 0
    /\ fIdx' = 0
NextUnit(succeeded, h) ==
    /\ success_count' = success_count + (IF succeeded THEN 1 ELSE 0)
    /\ fail_count' = fail_count + (IF succeeded THEN 0 ELSE 1)
    /\ hist' = [hist EXCEPT ![idx] =
                   [h EXCEPT !.succ = @ + (IF succeeded THEN 1 ELSE 0),
                             !.fail = @ + (IF succeeded THEN 0 ELSE 1)]]
    /\ idx' = idx + 1
    /\ pc' = "loop"
    /\ hostnames' = <<>>
    /\ cert' = NoCert
    /\ fingerprint' = NoContent
    /\ hIdx' = 0
    /\ fIdx' = 0

\* ---------------------------------------------------------------- main, lines 297-320
main_for_domain ==
    /\ pc = "loop"
    /\ idx <= nUnits
    /\ \E u \in UnitConfigs :
          LET kind == IF ~u.cfg THEN "no_config"
                      ELSE IF ~u.key THEN "no_key"
                      ELSE IF u.nhosts = 0 THEN "no_hostnames" ELSE "valid"
              h == [hist[idx] EXCEPT !.valid = kind]
          IN IF unit_valid(u)
             THEN /\ pc' = "csr"
                  /\ hostnames' = HostList(u.nhosts)
                  /\ hist' = [hist EXCEPT ![idx] = h]
                  /\ UNCHANGED <<idx, cert, fingerprint, hIdx, fIdx, success_count, fail_count>>
             ELSE NextUnit(FALSE, h)
    /\ lastWrite' = NoWrite
    /\ UNCHANGED <<nUnits, dirs, files, temps, faults>>
    /\ UNCHANGED otherVars

\* ---------------------------------------------------------------- generate_csr, lines 90-134
\* called from create_origin_certificate, line 143; subprocess.run(check=True)
\* raises CalledProcessError, which nothing catches
generate_csr ==
    /\ pc = "csr"
    /\ \E o \in CsrOutcomes :
          /\ CanAfford(o = "ok")
          /\ faults' = faults + Cost(o = "ok")
          /\ hist' = [hist EXCEPT ![idx].csr = @ + 1, ![idx].csrOutcome = o]
          /\ temps' = temps \cup tempdir_cleanup(scratch_files(o, idx))
          /\ IF o = "ok"
             THEN /\ pc' = "post"
                  /\ UNCHANGED <<idx, hostnames, cert, fingerprint, hIdx, fIdx,
                                 success_count, fail_count>>
             ELSE Crash
    /\ lastWrite' = NoWrite
    /\ UNCHANGED <<nUnits, dirs, files>>
    /\ UNCHANGED otherVars

\* ---------------------------------------------------------------- create_origin_certificate,
\* lines 145-167, and the branch of main on its result, lines 334, 357-358
create_origin_certificate ==
    /\ pc = "post"
    /\ \E o \in CaOutcomes :
          LET h == [hist[idx] EXCEPT !.ca = @ + 1, !.caOutcome = o]
          IN /\ CanAfford(o = "ok")
             /\ faults' = faults + Cost(o = "ok")
             /\ IF o = "transport_error"
                THEN \* requests.post raised: no handler
                     /\ hist' = [hist EXCEPT ![idx] = h]
                     /\ Crash
                ELSE IF ca_response_ok(o)
                THEN /\ cert' = [present |-> TRUE, certificate |-> CertOf(idx),
                                 private_key |-> KeyOf(idx)]
                     /\ pc' = "fingerprint"
                     /\ hist' = [hist EXCEPT ![idx] = h]
                     /\ UNCHANGED <<idx, hostnames, fingerprint, hIdx, fIdx,
                                    success_count, fail_count>>
                ELSE IF after_rejection = "next_unit"
                THEN NextUnit(main_unit_succeeded(NoCert, NoContent, 0), h)
                ELSE /\ pc' = "csr"
                     /\ hist' = [hist EXCEPT ![idx] = h]
                     /\ UNCHANGED <<idx, hostnames, cert, fingerprint, hIdx, fIdx,
                                    success_count, fail_count>>
    /\ lastWrite' = NoWrite
    /\ UNCHANGED <<nUnits, dirs, files, temps>>
    /\ UNCHANGED otherVars

\* ---------------------------------------------------------------- get_certificate_fingerprint,
\* lines 169-194, and lines 340-345, 356 of main
get_certificate_fingerprint ==
    /\ pc = "fingerprint"
    /\ \E o \in FpOutcomes :
          LET h0 == [hist[idx] EXCEPT !.fp = @ + 1, !.fpOutcome = o]
              fp == IF o = "ok" THEN FingerprintOf(idx) ELSE NoContent
          IN /\ CanAfford(o = "ok")
             /\ faults' = faults + Cost(o = "ok")
             /\ IF o = "tmp_write_error"
                THEN \* line 172 raised OSError before the try of line 175: the
                     \* file of line 171 (delete=False) stays, with part of the certificate
                     /\ temps' = temps \cup {[dir |-> "tmp", content |-> cert.certificate,
                                           complete |-> FALSE]}
                     /\ hist' = [hist EXCEPT ![idx] = h0]
                     /\ Crash
                ELSE /\ temps' = temps
                     /\ IF main_saves(cert, fp)
                        THEN \* line 347: the loop over the hostnames is entered
                             /\ fingerprint' = fp
                             /\ hIdx' = 1
                             /\ pc' = "mkdir"
                             /\ hist' = [hist EXCEPT ![idx] =
                                            [h0 EXCEPT !.nhosts = Len(hostnames)]]
                             /\ UNCHANGED <<idx, hostnames, cert, fIdx, success_count, fail_count>>
                        ELSE NextUnit(main_unit_succeeded(cert, fp, 0), h0)
    /\ lastWrite' = NoWrite
    /\ UNCHANGED <<nUnits, dirs, files>>
    /\ UNCHANGED otherVars

\* ---------------------------------------------------------------- save_to_cert_dir
\* The return of save_to_cert_dir to the loop of line 347 (its result is not
\* read), and the end of that loop, line 356
save_returns(ok, h) ==
    LET h2 == [h EXCEPT !.saveFalse = @ + (IF ok THEN 0 ELSE 1)]
    IN IF hIdx < Len(hostnames)
       THEN /\ hIdx' = hIdx + 1
            /\ fIdx' = 0
            /\ pc' = "mkdir"
            /\ hist' = [hist EXCEPT ![idx] = h2]
            /\ UNCHANGED <<idx, hostnames, cert, fingerprint, success_count, fail_count>>
       ELSE NextUnit(main_unit_succeeded(cert, fingerprint, h2.saveFalse), h2)

\* lines 199-214
save_to_cert_dir_mkdir ==
    /\ pc = "mkdir"
    /\ LET d == host_specific_dir(idx, hostnames[hIdx])
           existed == d \in dirs
       IN \E e \in (IF existed THEN {[primary |-> "none", sudo |-> "none"]} ELSE MkdirEnvs) :
             LET r == mkdir_result(existed, e)
                 save == [host |-> hostnames[hIdx], existed |-> existed,
                          primary |-> e.primary, sudoAnswer |-> e.sudo,
                          direct |-> r.direct, sudo |-> r.sudo, ret |-> r.ret,
                          rets |-> <<>>]
                 h == [hist[idx] EXCEPT !.saves = Append(@, save)]
             IN /\ CanAfford(e.primary \in {"ok", "none"})
                /\ faults' = faults + Cost(e.primary \in {"ok", "none"})
                /\ dirs' = IF r.created THEN dirs \cup {d} ELSE dirs
                /\ IF r.ret = "raise"
                   THEN /\ hist' = [hist EXCEPT ![idx] = h]
                        /\ Crash
                   ELSE IF r.ret = "False"
                   THEN save_returns(FALSE, h)
                   ELSE /\ pc' = "write"
                        /\ fIdx' = 1
                        /\ hist' = [hist EXCEPT ![idx] = h]
                        /\ UNCHANGED <<idx, hostnames, cert, fingerprint, hIdx,
                                       success_count, fail_count>>
    /\ lastWrite' = NoWrite
    /\ UNCHANGED <<nUnits, files, temps>>
    /\ UNCHANGED otherVars

\* lines 219-238: what save_to_cert_dir hands to _write_file as its i-th file
save_content(i) ==
    IF i = 1 THEN cert.certificate ELSE IF i = 2 THEN cert.private_key ELSE fingerprint

\* one call of _write_file (lines 240-259) from save_to_cert_dir (lines 221-232)
write_file ==
    /\ pc = "write"
    /\ \E e \in WriteEnvs :
          LET path == file_path(idx, hostnames[hIdx], fIdx)
              content == save_content(fIdx)
              r == write_file_result(e)
              h == [hist[idx] EXCEPT
                       !.writes = @ + 1,
                       !.saves[Len(hist[idx].saves)].rets = Append(@, r.ret)]
          IN /\ CanAfford(e.primary = "ok")
             /\ faults' = faults + Cost(e.primary = "ok")
             /\ lastWrite' = [called |-> TRUE, path |-> path, content |-> content,
                              primary |-> e.primary, tmp |-> e.tmp, cp |-> e.cp,
                              unlink |-> e.unlink, ret |-> r.ret, written |-> r.written,
                              sudoCp |-> r.sudoCp, tmpCreated |-> r.tmpCreated,
                              tmpLeft |-> r.tmpLeft]
             /\ files' = IF r.written
                         THEN {f \in files : f.path # path}
                              \cup {[path |-> path, content |-> content]}
                         ELSE files
             /\ temps' = IF r.tmpLeft
                         THEN temps \cup {[dir |-> "tmp", content |-> content,
                                           complete |-> (e.tmp = "ok")]}
                         ELSE temps
             /\ IF r.ret = "raise"
                THEN /\ hist' = [hist EXCEPT ![idx] = h]
                     /\ Crash
                ELSE IF save_stops(r.ret)
                THEN save_returns(FALSE, h)
                ELSE IF fIdx < 3
                THEN /\ fIdx' = fIdx + 1
                     /\ hist' = [hist EXCEPT ![idx] = h]
                     /\ UNCHANGED <<idx, pc, hostnames, cert, fingerprint, hIdx,
                                    success_count, fail_count>>
                ELSE save_returns(r.ret = "True", h)
    /\ UNCHANGED <<nUnits, dirs>>
    /\ UNCHANGED otherVars

\* ---------------------------------------------------------------- main, lines 360-362
main_summary ==
    /\ pc = "loop"
    /\ idx > nUnits
    /\ pc' = "done"
    /\ lastWrite' = NoWrite
    /\ UNCHANGED <<nUnits, idx, hostnames, cert, fingerprint, hIdx, fIdx, success_count,
                   fail_count, dirs, files, temps, hist, faults>>
    /\ UNCHANGED otherVars

Next ==
    \/ main_for_domain
    \/ generate_csr
    \/ create_origin_certificate
    \/ get_certificate_fingerprint
    \/ save_to_cert_dir_mkdir
    \/ write_file
    \/ main_summary

Spec == Init /\ [][Next]_vars

\* ================================================================ the parts alone
\* The specifications below run one function of the program on the inputs it
\* can be given; main() is not running in them.
mainVars == <<nUnits, idx, pc, hostnames, cert, fingerprint, hIdx, fIdx,
              success_count, fail_count, dirs, files, temps, lastWrite, hist, faults>>
MainIdle ==
    /\ nUnits = 0
    /\ idx = 1
    /\ pc = "none"
    /\ hostnames = <<>>
    /\ cert = NoCert
    /\ fingerprint = NoContent
    /\ hIdx = 0
    /\ fIdx = 0
    /\ success_count = 0
    /\ fail_count = 0
    /\ dirs = {}
    /\ files = {}
    /\ temps = {}
    /\ lastWrite = NoWrite
    /\ hist = [k \in Units |-> NoHist]
    /\ faults = 0

\* ---------------------------------------------------------------- get_certificate_fingerprint,
\* lines 181-189: from the output of "openssl x509 -fingerprint" to the value returned.
\* Text is a sequence of characters.
LowerCase == <<"a", "b", "c", "d", "e", "f", "g", "h", "i", "j", "k", "l", "m",
               "n", "o", "p", "q", "r", "s", "t", "u", "v", "w", "x", "y", "z">>
UpperCase == <<"A", "B", "C", "D", "E", "F", "G", "H", "I", "J", "K", "L", "M",
               "N", "O", "P", "Q", "R", "S", "T", "U", "V", "W", "X", "Y", "Z">>
Digits == {"0", "1", "2", "3", "4", "5", "6", "7", "8", "9"}
Whitespace == {" ", "\t", "\n", "\r"}

\* str.strip() without argument
RECURSIVE lstrip(_)
lstrip(s) == IF s # <<>> /\ Head(s) \in Whitespace THEN lstrip(Tail(s)) ELSE s
RECURSIVE rstrip(_)
rstrip(s) ==
    IF s # <<>> /\ s[Len(s)] \in Whitespace THEN rstrip(SubSeq(s, 1, Len(s) - 1)) ELSE s
strip(s) == rstrip(lstrip(s))

\* s.split(c)[-1]: what follows the last c
split_last(s, c) ==
    LET at == {i \in 1..Len(s) : s[i] = c}
    IN IF at = {} THEN s
       ELSE SubSeq(s, (CHOOSE i \in at : \A j \in at : j <= i) + 1, Len(s))

\* str.upper()
upper_char(c) ==
    IF \E i \in 1..26 : LowerCase[i] = c
    THEN UpperCase[CHOOSE i \in 1..26 : LowerCase[i] = c]
    ELSE c
upper(s) == [i \in 1..Len(s) |-> upper_char(s[i])]

\* re.sub(r'[^A-F0-9:]', '', s), line 188
FingerprintChars == {"A", "B", "C", "D", "E", "F"} \cup Digits \cup {":"}
KeepFingerprintChar(c) == c \in FingerprintChars
re_sub(s) == SelectSeq(s, KeepFingerprintChar)

\* lines 182-185
extract_fingerprint_mutant(fingerprint_line) == strip(fingerprint_line)
extract_fingerprint(fingerprint_line) ==
    IF \E i \in 1..Len(fingerprint_line) : fingerprint_line[i] = "="
    THEN strip(split_last(fingerprint_line, "="))
    ELSE strip(fingerprint_line)

\* What "openssl x509 -fingerprint -sha256 -noout" prints on success: the
\* digest as hex pairs joined by ":", after "<algorithm> Fingerprint=" or
\* alone, in either letter case, with whitespace around
HexSample == {"0", "7", "a", "F"}
HexPairs == {<<a, b>> : a \in HexSample, b \in HexSample}
RECURSIVE DigestsOf(_)
DigestsOf(n) ==
    IF n = 1 THEN HexPairs
    ELSE {d \o <<":">> \o p : d \in DigestsOf(n - 1), p \in HexPairs}
Digests == UNION {DigestsOf(n) : n \in 1..MaxBytes}
Labels ==
    {<<>>,
     <<"S", "H", "A", "2", "5", "6", " ", "F", "i", "n", "g", "e", "r", "p", "r", "i", "n", "t", "=">>,
     <<"s", "h", "a", "2", "5", "6", " ", "F", "i", "n", "g", "e", "r", "p", "r", "i", "n", "t", "=">>}
FpInputs ==
    {i \in [lead : {<<>>, <<" ">>}, label : Labels, gap : {<<>>, <<" ">>},
            digest : Digests, trail : {<<>>, <<"\n">>}] :
        i.label = <<>> => i.gap = <<>>}

InitFp ==
    /\ MainIdle
    /\ WfIdle
    /\ MigIdle
    /\ fpInput \in FpInputs
    /\ fpPc = "stdout"
    /\ fpValue = fpInput.lead \o fpInput.label \o fpInput.gap \o fpInput.digest \o fpInput.trail

\* line 181
fingerprint_strip ==
    /\ fpPc = "stdout"
    /\ fpValue' = strip(fpValue)
    /\ fpPc' = "stripped"
    /\ UNCHANGED <<fpInput, mainVars, wfVars, migVars>>

\* lines 182-185
fingerprint_extract ==
    /\ fpPc = "stripped"
    /\ fpValue' = extract_fingerprint(fpValue)
    /\ fpPc' = "extracted"
    /\ UNCHANGED <<fpInput, mainVars, wfVars, migVars>>

\* lines 188-189
fingerprint_filter ==
    /\ fpPc = "extracted"
    /\ fpValue' = re_sub(upper(fpValue))
    /\ fpPc' = "returned"
    /\ UNCHANGED <<fpInput, mainVars, wfVars, migVars>>

NextFp == fingerprint_strip \/ fingerprint_extract \/ fingerprint_filter

SpecFp == InitFp /\ [][NextFp]_vars

\* ---------------------------------------------------------------- _write_file, lines 240-259,
\* called MaxCalls times with the same path and content
WfPath == file_path(1, 1, 2)
WfContents == {<<"k">>, <<"k", "k">>}
WfTargets ==
    {NoTarget,
     [exists |-> TRUE, content |-> <<"o">>, writable |-> TRUE],
     [exists |-> TRUE, content |-> <<"o">>, writable |-> FALSE]}

\* line 243: open(file_path, "w") is allowed when the file is writable, or
\* absent in a directory the caller may write
can_write(target, dirWritable) ==
    IF target.exists THEN target.writable ELSE dirWritable

\* lines 243-244: what the file holds after open(..., "w") and f.write(content)
open_w_mutant(old, content) == old \o content
open_w(old, content) == content

\* What the call prints (lines 247-248, 255, 258) and the exception that
\* leaves it. at: where the direct attempt failed, open() (line 243, the
\* OSError carries the file name) or f.write()/close (line 244, it does not)
write_file_report(path, env, at, r) ==
    [printed |->
        IF write_file_catches(env.primary)
        THEN <<[text |-> "no_permission", path |-> path],
               [text |-> "trying_sudo", path |-> <<>>],
               IF r.ret = "True" THEN [text |-> "written", path |-> path]
               ELSE [text |-> "cannot_write", path |-> path]>>
        ELSE <<>>,
     raised |->
        IF r.ret = "raise"
        THEN [type |-> "OSError", filename |-> IF at = "open" THEN path ELSE <<>>]
        ELSE [type |-> "none", filename |-> <<>>]]

\* The file at the path after the call
write_file_target(target, content, env, at, r) ==
    IF env.primary = "ok"
    THEN [exists |-> TRUE, content |-> open_w(target.content, content), writable |-> TRUE]
    ELSE IF env.primary = "oserr"
    THEN IF at = "open" THEN target
         ELSE \* opened and truncated, then the write failed
              [exists |-> TRUE, content |-> <<>>, writable |-> TRUE]
    ELSE IF r.written
    THEN \* "sudo cp": a new file belongs to root, an old one keeps its owner and mode
         [exists |-> TRUE, content |-> content, writable |-> FALSE]
    ELSE target

InitWrite ==
    /\ MainIdle
    /\ FpIdle
    /\ MigIdle
    /\ wfTarget \in WfTargets
    /\ wfDirWritable \in BOOLEAN
    /\ wfBytes \in WfContents
    /\ wfCalls = <<>>

write_file_alone ==
    /\ Len(wfCalls) < MaxCalls
    /\ \A i \in 1..Len(wfCalls) : wfCalls[i].ret # "raise"
    /\ \E e \in WriteEnvs, at \in {"none", "open", "write"} :
          /\ (e.primary = "ok" => can_write(wfTarget, wfDirWritable))
          /\ (e.primary = "perm" => ~can_write(wfTarget, wfDirWritable))
          /\ (e.primary = "oserr" <=> at # "none")
          /\ (at = "write" => can_write(wfTarget, wfDirWritable))
          /\ LET r == write_file_result(e)
                 rep == write_file_report(WfPath, e, at, r)
                 t == write_file_target(wfTarget, wfBytes, e, at, r)
             IN /\ wfTarget' = t
                /\ wfCalls' = Append(wfCalls,
                       [primary |-> e.primary, at |-> at, tmp |-> e.tmp, cp |-> e.cp,
                        unlink |-> e.unlink, ret |-> r.ret, printed |-> rep.printed,
                        raised |-> rep.raised, content |-> t.content])
    /\ UNCHANGED <<wfDirWritable, wfBytes, mainVars, fpVars, migVars>>

NextWrite == write_file_alone

SpecWrite == InitWrite /\ [][NextWrite]_vars

\* ---------------------------------------------------------------- migrate_v1_to_v2.py
\* A path: the area it lies in, the hostname directory (0: none) and the file
\* in it (0: the directory itself; 1..3: the .crt, .key, .fingerprint file)
MigPath(area, host, ext) == [area |-> area, host |-> host, ext |-> ext]
NewConfigFile == MigPath("config", 0, 0)                \* line 25
ConfigBackup == MigPath("config_backup", 0, 0)          \* line 174
CertBaseDir == MigPath("cert_base", 0, 0)               \* line 27
OldHostDir(h) == MigPath("old", h, 0)                   \* /etc/cert/{hostname}
OldFile(h, e) == MigPath("old", h, e)                   \* /etc/cert/{hostname}/*.{ext}
DomainDir == MigPath("domain", 0, 0)                    \* /etc/cert/{domain}
NewHostDir(h) == MigPath("new", h, 0)                   \* line 308
NewFile(h, e) == MigPath("new", h, e)                   \* lines 312-313
OldCronFile == MigPath("old_cron", 0, 0)                \* line 26
OldCronBackup == MigPath("old_cron_backup", 0, 0)       \* line 350
NewCronFile == MigPath("new_cron", 0, 0)                \* line 368

MigFile(path, content) == [path |-> path, content |-> content]
OldContent(h, e) == <<"old", h, e>>
OtherContent(h, e) == <<"other", h, e>>
ConfigOld == <<"config_old", 0, 0>>
ConfigNew == <<"config_new", 0, 0>>                     \* lines 178-209
CronV1 == <<"cron_v1", 0, 0>>
CronContent == <<"cron_v2", 0, 0>>                      \* lines 370-373
CronOther == <<"cron_other", 0, 0>>

MigExists(path) == path \in migDirs \/ \E f \in migFiles : f.path = path
MigContent(path) == (CHOOSE f \in migFiles : f.path = path).content

\* shutil.copy, open(..., 'w'): the file at the path holds the content afterwards
MigWrite(fs, path, content) == {f \in fs : f.path # path} \cup {MigFile(path, content)}

\* The filesystem the script is started on. For each hostname directory of the
\* old layout: which of its three files are there, and what the new layout
\* already holds for the hostname
OldHostStates ==
    [exts : {{}, {1}, {1, 2, 3}}, new : {"absent", "dir_only", "same", "different"}]
MigDirsOf(hs) ==
    {CertBaseDir} \cup {OldHostDir(h) : h \in DOMAIN hs}
    \cup {NewHostDir(h) : h \in {k \in DOMAIN hs : hs[k].new # "absent"}}
    \cup (IF \E h \in DOMAIN hs : hs[h].new # "absent" THEN {DomainDir} ELSE {})
MigFilesOf(hs) ==
    {MigFile(OldFile(x[1], x[2]), OldContent(x[1], x[2])) :
        x \in {y \in (DOMAIN hs) \X (1..3) : y[2] \in hs[y[1]].exts}}
    \cup {MigFile(NewFile(x[1], x[2]), OldContent(x[1], x[2])) :
             x \in {y \in (DOMAIN hs) \X (1..3) : hs[y[1]].new = "same"}}
    \cup {MigFile(NewFile(x[1], x[2]), OtherContent(x[1], x[2])) :
             x \in {y \in (DOMAIN hs) \X (1..3) : hs[y[1]].new = "different"}}
MigCertTrees ==
    {[dirs |-> {}, files |-> {}]}       \* /etc/cert does not exist
    \cup {[dirs |-> MigDirsOf(hs), files |-> MigFilesOf(hs)] :
             hs \in UNION {[1..k -> OldHostStates] : k \in 0..MaxOldHosts}}
MigStartStates ==
    {[dirs |-> t.dirs, files |-> t.files \cup c \cup o \cup n] :
        t \in MigCertTrees,
        c \in {{}, {MigFile(NewConfigFile, ConfigOld)}},
        o \in {{}, {MigFile(OldCronFile, CronV1)}},
        n \in {{}, {MigFile(NewCronFile, CronContent)}, {MigFile(NewCronFile, CronOther)}}}

InitMigrate ==
    /\ MainIdle
    /\ FpIdle
    /\ WfIdle
    /\ migRepaired \in BOOLEAN
    /\ migDryRun \in BOOLEAN
    /\ migPc = "start"
    /\ migHost = 0
    /\ migExt = 0
    /\ migBefore \in MigStartStates
    /\ migDirs = migBefore.dirs
    /\ migFiles = migBefore.files
    /\ migConsent = {}

\* Python compiles the file before it runs any of it: line 325 ("else:" at an
\* indentation no enclosing block has) is an IndentationError, and nothing
\* runs. With line 325 read as the else of line 320: check_root (line 437)
\* and parse_old_config (line 440) let the run go on or end it
migrate_start ==
    /\ migPc = "start"
    /\ IF ~migRepaired
       THEN migPc' = "syntax_error"
       ELSE \E ok \in BOOLEAN : migPc' = IF ok THEN "create_config" ELSE "exit"
    /\ UNCHANGED <<migRepaired, migDryRun, migHost, migExt, migDirs, migFiles, migBefore,
                   migConsent>>
    /\ UNCHANGED <<mainVars, fpVars, wfVars>>

\* lines 160-216 (configure_smtp, lines 445-447, asks and writes nothing)
create_config ==
    /\ migPc = "create_config"
    /\ IF migDryRun
       THEN \* lines 164-166: preview_config prints
            migFiles' = migFiles /\ migConsent' = migConsent
       ELSE IF MigExists(NewConfigFile)
       THEN \E overwrite \in BOOLEAN :     \* line 171: questionary.confirm(...).ask()
               /\ migFiles' =
                      IF overwrite
                      THEN MigWrite(MigWrite(migFiles, ConfigBackup, MigContent(NewConfigFile)),
                                    NewConfigFile, ConfigNew)
                      ELSE migFiles
               /\ migConsent' = IF overwrite THEN migConsent \cup {NewConfigFile}
                                ELSE migConsent
       ELSE migFiles' = MigWrite(migFiles, NewConfigFile, ConfigNew) /\ migConsent' = migConsent
    /\ migPc' = "migrate_cert_dir"
    /\ UNCHANGED <<migRepaired, migDryRun, migHost, migExt, migDirs, migBefore>>
    /\ UNCHANGED <<mainVars, fpVars, wfVars>>

\* lines 279-294: the directory test and the question whether to migrate
migrate_cert_dir ==
    /\ migPc = "migrate_cert_dir"
    /\ IF CertBaseDir \notin migDirs
       THEN migPc' = "migrate_cron" /\ UNCHANGED <<migHost, migExt>>
       ELSE \E answer \in BOOLEAN :        \* line 291: questionary.confirm(...).ask()
               IF answer /\ OldHostDir(1) \in migDirs
               THEN migPc' = "cert_file" /\ migHost' = 1 /\ migExt' = 1
               ELSE \* declined, or no directory to go through
                    migPc' = "migrate_cron" /\ UNCHANGED <<migHost, migExt>>
    /\ UNCHANGED <<migRepaired, migDryRun, migDirs, migFiles, migBefore, migConsent>>
    /\ UNCHANGED <<mainVars, fpVars, wfVars>>

\* questionary.confirm(...) without .ask() (lines 327, 391) is a Question
\* object, which is true: "not" of it is false, the question is never put
confirm_without_ask == TRUE

\* One round of the loops of lines 299-304 (directories in the order of their
\* names): the file of hostname directory migHost with extension migExt,
\* lines 305-332. The directory of the domain, when it is there, is gone through
\* too and holds no file that line 304 matches
migrate_cert_file ==
    /\ migPc = "cert_file"
    /\ LET h == migHost
           e == migExt
           last == ~(OldHostDir(h + 1) \in migDirs)
           found == OldHostDir(h) \in migDirs /\ MigExists(OldFile(h, e))
           skip == /\ MigExists(NewFile(h, e))
                   /\ \/ MigContent(NewFile(h, e)) = MigContent(OldFile(h, e))   \* line 320
                      \/ ~confirm_without_ask                                    \* line 327
       IN /\ migDirs' = IF found
                        THEN migDirs \cup {DomainDir, NewHostDir(h)}   \* line 309
                        ELSE migDirs
          /\ migFiles' = IF found /\ ~migDryRun /\ ~skip
                         THEN MigWrite(migFiles, NewFile(h, e), MigContent(OldFile(h, e)))  \* line 330
                         ELSE migFiles
          /\ IF e < 3
             THEN migExt' = e + 1 /\ UNCHANGED <<migHost, migPc>>
             ELSE IF last
             THEN migPc' = "migrate_cron" /\ UNCHANGED <<migHost, migExt>>
             ELSE migHost' = h + 1 /\ migExt' = 1 /\ UNCHANGED migPc
    /\ UNCHANGED <<migRepaired, migDryRun, migBefore>>
    /\ migConsent' = migConsent      \* line 327 puts no question: no answer is given
    /\ UNCHANGED <<mainVars, fpVars, wfVars>>

\* lines 344-396
migrate_cron ==
    /\ migPc = "migrate_cron"
    /\ \E answer \in BOOLEAN :             \* line 363: questionary.confirm(...).ask()
          LET old == IF MigExists(OldCronFile) /\ ~migDryRun
                     THEN \* lines 356-359: backup and unlink
                          {f \in MigWrite(migFiles, OldCronBackup, MigContent(OldCronFile)) :
                              f.path # OldCronFile}
                     ELSE migFiles
              exists == \E f \in old : f.path = NewCronFile
              same == MigFile(NewCronFile, CronContent) \in old
          IN migFiles' =
                 IF ~answer \/ migDryRun THEN old
                 ELSE IF exists /\ (same \/ ~confirm_without_ask) THEN old
                 ELSE MigWrite(old, NewCronFile, CronContent)
    /\ migPc' = "verify"
    /\ UNCHANGED <<migRepaired, migDryRun, migHost, migExt, migDirs, migBefore>>
    /\ migConsent' = migConsent      \* line 391 puts no question: no answer is given
    /\ UNCHANGED <<mainVars, fpVars, wfVars>>

\* lines 459-478: verify_config reads, the summary prints
migrate_summary ==
    /\ migPc = "verify"
    /\ migPc' = "done"
    /\ UNCHANGED <<migRepaired, migDryRun, migHost, migExt, migDirs, migFiles, migBefore,
                   migConsent>>
    /\ UNCHANGED <<mainVars, fpVars, wfVars>>

NextMigrate ==
    \/ migrate_start
    \/ create_config
    \/ migrate_cert_dir
    \/ migrate_cert_file
    \/ migrate_cron
    \/ migrate_summary

SpecMigrate == InitMigrate /\ [][NextMigrate]_vars

\* ================================================================ claims
FinishedUnits == {k \in 1..nUnits : k < idx}
Rejected(k) == hist[k].caOutcome \in {"non200", "success_false"}
Malformed(k) == hist[k].valid \in {"no_key", "no_hostnames"}
FilesOf(k) == {f \in files : f.path.dir[2] = k}
InProgress(k) == idx = k /\ pc \in {"csr", "post", "fingerprint", "mkdir", "write"}

\* C1: a failure of unit k in any pipeline stage never ends the run: the loop
\* goes on with units k+1..N and the run reaches the final summary.
C1_RunNeverAborted == pc # "crashed"

\* C2: a unit is counted as succeeded only if the CA issued its certificate
\* and its fingerprint was extracted.
C2_SuccessNeedsFingerprint ==
    \A k \in Units :
        hist[k].succ > 0 => hist[k].caOutcome = "ok" /\ hist[k].fpOutcome = "ok"

\* C3: a unit without credential or without hostnames gets no CSR and no CA
\* request, is counted as failed exactly once, and the step that handles it
\* changes nothing else: no file, no directory, no other unit's record; the
\* CA is called at most once for each of the other units.
C3_MalformedRecorded ==
    /\ \A k \in Units :
          Malformed(k) =>
              /\ hist[k].csr = 0 /\ hist[k].ca = 0 /\ hist[k].fp = 0 /\ hist[k].writes = 0
              /\ hist[k].fail = 1 /\ hist[k].succ = 0
              /\ FilesOf(k) = {}
              /\ idx > k
    /\ \A k \in Units : hist[k].ca > 0 => hist[k].valid = "valid" /\ hist[k].ca = 1
C3_MalformedStep ==
    (pc = "loop" /\ idx <= nUnits /\ hist'[idx].valid \in {"no_key", "no_hostnames"}) =>
        /\ fail_count' = fail_count + 1
        /\ success_count' = success_count
        /\ idx' = idx + 1
        /\ pc' = "loop"
        /\ UNCHANGED <<files, dirs, temps, faults>>
        /\ \A j \in Units \ {idx} : hist'[j] = hist[j]
\* C3: both parts, the record of a malformed unit and the step that handles it
C3_ValidationBeforeCA == [](C3_MalformedRecorded) /\ [][C3_MalformedStep]_vars
C3_Witness ==
    \E k, j \in Units :
        /\ k < j /\ Malformed(k) /\ hist[k].fail = 1
        /\ hist[j].ca = 1 /\ hist[j].succ = 1 /\ FilesOf(j) # {}

\* C4: a unit whose certificate was issued and for which save_to_cert_dir
\* returned False for some hostname is never counted as failed, and is
\* counted as succeeded once its iteration has ended.
C4_StorageDoesNotGateSuccess ==
    \A k \in Units :
        hist[k].saveFalse > 0 =>
            /\ hist[k].caOutcome = "ok"
            /\ hist[k].fail = 0
            /\ (k \in FinishedUnits => hist[k].succ = 1)
C4_Witness ==
    \E k \in Units : hist[k].saveFalse > 0 /\ hist[k].succ = 1 /\ success_count > 0

\* C5 as stated: the copy is never invoked after a direct write that
\* succeeded; after a permission failure it is invoked exactly once and the
\* call returns success iff the copy succeeds.
C5_CopyExactlyOnce ==
    lastWrite.called =>
        /\ (lastWrite.primary = "ok" => lastWrite.sudoCp = 0)
        /\ (lastWrite.primary = "perm" =>
               /\ lastWrite.sudoCp = 1
               /\ (lastWrite.ret = "True" <=> lastWrite.cp = "ok"))

\* C5 as amended: the copy is never invoked after a direct write that
\* succeeded; after a permission failure it is invoked at most once, and once
\* iff the temporary file was written; the call returns success iff the copy
\* was invoked and succeeded and the temporary file was then removed.
C5_CopyAtMostOnce ==
    lastWrite.called =>
        /\ (lastWrite.primary = "ok" => lastWrite.sudoCp = 0 /\ lastWrite.ret = "True")
        /\ (lastWrite.primary = "perm" =>
               /\ lastWrite.sudoCp <= 1
               /\ (lastWrite.sudoCp = 1 <=> lastWrite.tmp = "ok")
               /\ (lastWrite.ret = "True" <=>
                      (lastWrite.sudoCp = 1 /\ lastWrite.cp = "ok" /\ lastWrite.unlink = "ok")))
C5_Witness ==
    /\ lastWrite.called /\ lastWrite.primary = "perm"
    /\ lastWrite.tmp = "ok" /\ lastWrite.cp = "fail"
    /\ lastWrite.sudoCp = 1 /\ lastWrite.ret = "False"

\* C6: after a call of _write_file that took the fallback path, the temporary
\* file of the fallback no longer exists.
C6_TempFileRemoved ==
    (lastWrite.called /\ lastWrite.primary = "perm") => ~lastWrite.tmpLeft

\* C7: once a unit has been processed, its private key is on the filesystem
\* only at the final paths {baseDir}/{domain}/{hostname}/{domain}.{hostname}.key.
C7_PrivateKeyConfined ==
    \A k \in 1..nUnits :
        (k \in FinishedUnits \/ pc \in {"done", "crashed"}) =>
            /\ \A t \in temps : ~(t.complete /\ t.content = KeyOf(k))
            /\ \A f \in files :
                  f.content = KeyOf(k) =>
                      \E h \in 1..MaxHosts : f.path = file_path(k, h, 2)

\* C8: a direct write that fails for another reason than permission denied
\* ends _write_file with that error: no copy is invoked, no temporary file is
\* created.
C8_OtherErrorsFatal ==
    (lastWrite.called /\ lastWrite.primary = "oserr") =>
        /\ lastWrite.ret = "raise"
        /\ lastWrite.sudoCp = 0
        /\ ~lastWrite.tmpCreated
        /\ ~lastWrite.written
        /\ pc = "crashed"
C8_Witness ==
    lastWrite.called /\ lastWrite.primary = "oserr" /\ lastWrite.content[1] = "private_key"

\* C9: for each unit at most one CSR is generated and at most one request is
\* sent to the CA; after a request that failed, nothing more is done for the
\* unit (no fingerprint, no write, the unit no longer in progress).
C9_NoRetry ==
    \A k \in Units :
        /\ hist[k].csr <= 1
        /\ hist[k].ca <= 1
        /\ (hist[k].caOutcome \notin {"none", "ok"} =>
               /\ hist[k].fp = 0 /\ hist[k].writes = 0
               /\ ~InProgress(k))
C9_Witness ==
    \E k, j \in Units :
        /\ k < j /\ Rejected(k) /\ hist[k].ca = 1 /\ hist[k].csr = 1
        /\ hist[j].ca = 1

\* C10: when the CA answers non-200, or 200 with success=false, the unit is
\* counted as failed exactly once and not as succeeded, the fingerprint is
\* not extracted and no file is written for the unit.
C10_RejectionHandled ==
    \A k \in Units :
        Rejected(k) =>
            /\ hist[k].fail = 1 /\ hist[k].succ = 0
            /\ hist[k].fp = 0
            /\ hist[k].writes = 0
            /\ FilesOf(k) = {}
            /\ k \in FinishedUnits
C10_Witness ==
    /\ pc = "done"
    /\ \E k \in Units : hist[k].caOutcome = "success_false" /\ hist[k].fail = 1

\* ---------------------------------------------------------------- C11..C19
Issued(k) == hist[k].caOutcome = "ok" /\ hist[k].fpOutcome = "ok"
FilesAt(k, h) == {f \in files : f.path.dir = <<BaseDir, k, h>>}

\* C11 as stated: for every unit whose issuance and fingerprint extraction
\* succeeded, the writer is called three times for every hostname of the unit.
C11_ThreeWritesPerHostname ==
    \A k \in FinishedUnits :
        Issued(k) =>
            /\ hist[k].nhosts > 0
            /\ Len(hist[k].saves) = hist[k].nhosts
            /\ \A i \in 1..Len(hist[k].saves) : Len(hist[k].saves[i].rets) = 3

\* C11 as amended: for every unit whose issuance and fingerprint extraction
\* succeeded and whose iteration has ended, save_to_cert_dir was called once
\* for every hostname, in list order; for each hostname the writer was called
\* for certificate, key and fingerprint until one call reported failure, and
\* not at all when the directory could not be created; the files written for
\* the unit hold the unit's certificate, key and fingerprint, the same for all
\* hostnames.
\* The state part: one call of save_to_cert_dir for each hostname.
C11_OneSavePerHostname ==
    \A k \in Units :
        (k < idx /\ Issued(k)) =>
            /\ hist[k].nhosts > 0
            /\ Len(hist[k].saves) = hist[k].nhosts
\* The step that ends the iteration of such a unit: what was called and written
C11_SaveStep ==
    (idx' = idx + 1 /\ hist'[idx].caOutcome = "ok" /\ hist'[idx].fpOutcome = "ok") =>
        LET k == idx
            h == hist'[idx]
        IN /\ h.nhosts = Len(hostnames)
           /\ Len(h.saves) = h.nhosts
           /\ \A i \in 1..Len(h.saves) :
                 LET s == h.saves[i]
                     n == Len(s.rets)
                 IN /\ s.host = hostnames[i]
                    /\ n <= 3
                    /\ \A j \in 1..(n - 1) : s.rets[j] = "True"
                    /\ (s.ret = "False" => n = 0)
                    /\ (s.ret = "ok" => n >= 1 /\ (n = 3 \/ s.rets[n] = "False"))
                    /\ ((n = 3 /\ s.rets[3] = "True") =>
                           \A e \in 1..3 :
                               \E f \in files' : /\ f.path.dir = <<BaseDir, k, s.host>>
                                                /\ f.path.name[3] = Exts[e])
           /\ \A f \in files' :
                 f.path.dir[2] = k =>
                     /\ (f.path.name[3] = "crt" => f.content = CertOf(k))
                     /\ (f.path.name[3] = "key" => f.content = KeyOf(k))
                     /\ (f.path.name[3] = "fingerprint" => f.content = FingerprintOf(k))
\* C11 as amended: both parts
C11_WritesUntilFailure == [](C11_OneSavePerHostname) /\ [][C11_SaveStep]_vars
C11_Witness ==
    \E k \in FinishedUnits :
        /\ Issued(k) /\ hist[k].nhosts = 2
        /\ hist[k].saves[1].rets = <<"True", "False">>
        /\ hist[k].saves[2].rets = <<"True", "True", "True">>

\* C12: every file written below the base directory for domain d and hostname
\* h is b/d/h/d.h.crt, b/d/h/d.h.key or b/d/h/d.h.fingerprint, holding the
\* certificate, the private key and the fingerprint respectively; _write_file
\* is given no other target path.
InLayout(path, content) ==
    /\ Len(path.dir) = 3 /\ Len(path.name) = 3
    /\ LET d == path.dir[2]
           h == path.dir[3]
       IN /\ path.dir[1] = "base" /\ d \in Units /\ h \in 1..MaxHosts
          /\ path.name[1] = d /\ path.name[2] = h
          /\ \/ path.name[3] = "crt" /\ content = <<"certificate", d>>
             \/ path.name[3] = "key" /\ content = <<"private_key", d>>
             \/ path.name[3] = "fingerprint" /\ content = <<"fingerprint", d>>
C12_TargetInLayout ==
    lastWrite.called =>
        /\ InLayout(lastWrite.path, lastWrite.content)
        /\ (lastWrite.written =>
               [path |-> lastWrite.path, content |-> lastWrite.content] \in files)
\* A step changes the files below the base directory only through a call of
\* _write_file, and only the file at the path the call was given
C12_WriteStep ==
    files' # files =>
        /\ lastWrite'.called /\ lastWrite'.written
        /\ \A f \in files' : f \in files \/ f.path = lastWrite'.path
        /\ \A f \in files : f \in files' \/ f.path = lastWrite'.path
\* C12: both parts; no file exists at the start, so every file is in the layout
C12_DirectoryLayout ==
    (files = {}) /\ [](C12_TargetInLayout) /\ [][C12_WriteStep]_vars
C12_Witness ==
    /\ lastWrite.called /\ lastWrite.primary = "perm" /\ lastWrite.written
    /\ \E f \in files : f.path.name = <<2, 2, "fingerprint">>

\* C13: for every line the tool prints on success, the value returned holds
\* only characters of [0-9A-F:], is the upper-cased digest of the line with
\* label, "=" and whitespace removed, and has the form of hex pairs joined by ":".
HexUpper == {"A", "B", "C", "D", "E", "F"} \cup Digits
C13_FingerprintFormat ==
    fpPc = "returned" =>
        /\ \A i \in 1..Len(fpValue) : fpValue[i] \in HexUpper \cup {":"}
        /\ fpValue = upper(fpInput.digest)
        /\ Len(fpValue) >= 2 /\ (Len(fpValue) + 1) % 3 = 0
        /\ \A i \in 1..Len(fpValue) :
              IF i % 3 = 0 THEN fpValue[i] = ":" ELSE fpValue[i] \in HexUpper
C13_Witness ==
    /\ fpPc = "returned"
    /\ fpInput.label # <<>> /\ fpInput.label[1] = "s" /\ fpInput.gap = <<" ">>
    /\ fpInput.lead = <<" ">> /\ fpInput.trail = <<"\n">>
    /\ fpInput.digest = <<"a", "F", ":", "0", "a">>
    /\ fpValue = <<"A", "F", ":", "0", "A">>

\* C14: a call of _write_file that fails tells whether the direct attempt or
\* the fallback failed (an exception for the first, False for the second), and
\* what it reports (a printed message, or the exception) names the target path.
C14_FailureNamesPath ==
    \A i \in 1..Len(wfCalls) :
        LET c == wfCalls[i]
        IN /\ (c.ret = "raise" <=> c.primary = "oserr")
           /\ (c.ret = "False" => c.primary = "perm")
           /\ (c.ret = "False" =>
                  \E j \in 1..Len(c.printed) :
                      c.printed[j].text = "cannot_write" /\ c.printed[j].path = WfPath)
           /\ (c.ret = "raise" => c.raised.filename = WfPath)

\* C17: when _write_file is called again with the same path and content after
\* a call that reported success, and no operation of the new call fails for
\* another reason than the permissions of the target, the new call reports
\* success too (through the fallback when the target is not writable) and the
\* file holds exactly that content after each of the two calls.
WfNoFault(c) ==
    /\ c.primary \in {"ok", "perm"}
    /\ (c.primary = "perm" => c.tmp = "ok" /\ c.cp = "ok" /\ c.unlink = "ok")
C17_IdempotentWrite ==
    /\ \A i \in 1..Len(wfCalls) :
          /\ (WfNoFault(wfCalls[i]) => wfCalls[i].ret = "True")
          /\ (wfCalls[i].ret = "True" => wfCalls[i].content = wfBytes)
    /\ \A i \in 2..Len(wfCalls) :
          (wfCalls[i - 1].ret = "True" /\ WfNoFault(wfCalls[i])) =>
              /\ wfCalls[i].ret = "True"
              /\ wfCalls[i].content = wfCalls[i - 1].content
              /\ (i = Len(wfCalls) => wfTarget.exists /\ wfTarget.content = wfBytes)
C17_Witness ==
    /\ Len(wfCalls) = 2
    /\ wfCalls[1].ret = "True" /\ wfCalls[1].primary = "perm"
    /\ wfCalls[2].ret = "True" /\ wfCalls[2].primary = "perm"
    /\ wfTarget.content = wfBytes /\ ~wfTarget.writable

C15_NothingAfterFailedMkdir ==
    \A k \in Units :
        \A i \in 1..Len(hist[k].saves) :
            (hist[k].saves[i].sudoAnswer = "fail") =>
                LET s == hist[k].saves[i]
                IN /\ s.sudo = 1
                   /\ s.ret = "False"
                   /\ s.rets = <<>>
                   /\ FilesAt(k, s.host) = {}
                   /\ <<"base", k, s.host>> \notin dirs
\* The step that enters save_to_cert_dir: what it invokes for the directory
C15_MkdirStep ==
    pc = "mkdir" =>
        LET d == <<"base", idx, hostnames[hIdx]>>
            s == hist'[idx].saves[Len(hist'[idx].saves)]
        IN /\ Len(hist'[idx].saves) = Len(hist[idx].saves) + 1
           /\ s.host = hostnames[hIdx]
           /\ s.existed = (d \in dirs)
           /\ (s.existed => s.direct = 0 /\ s.sudo = 0 /\ dirs' = dirs)
           /\ (~s.existed => s.direct = 1)
           /\ s.sudo <= 1
           /\ (s.sudo = 1 <=> (~s.existed /\ s.primary = "perm"))
           /\ ((s.sudo = 1 /\ s.sudoAnswer = "fail") =>
                  s.ret = "False" /\ dirs' = dirs /\ pc' \in {"mkdir", "loop"})
           /\ ((~s.existed /\ (s.primary = "ok" \/ (s.sudo = 1 /\ s.sudoAnswer = "ok"))) =>
                  dirs' = dirs \cup {d})
           /\ files' = files
\* C15: both parts
C15_MkdirEscalation == [](C15_NothingAfterFailedMkdir) /\ [][C15_MkdirStep]_vars
C15_Witness ==
    \E k \in Units :
        /\ Len(hist[k].saves) = 2
        /\ hist[k].saves[1].sudo = 1 /\ hist[k].saves[1].sudoAnswer = "fail"
        /\ hist[k].saves[2].direct = 1 /\ hist[k].saves[2].sudo = 0

\* C16: when generate_csr has returned or raised, its scratch directory and
\* the key, config and CSR files in it no longer exist.
C16_ScratchReleased == \A t \in temps : t.dir # "scratch"
C16_Witness ==
    /\ \E k \in Units : hist[k].csrOutcome = "req_exit_nonzero"
    /\ \E k \in Units : hist[k].csrOutcome = "ok" /\ hist[k].succ = 1

\* C18: for every unit the CA is asked only after its CSR was generated, the
\* fingerprint is extracted only after the CA issued the certificate, files
\* are written only after a non-empty fingerprint was obtained; nothing is
\* done for a unit before all earlier units have ended, and a step changes
\* the record and the files of the current unit only.
C18_StagesInOrder ==
    \A k \in Units :
        /\ (hist[k].ca > 0 => hist[k].csrOutcome = "ok")
        /\ (hist[k].fp > 0 => hist[k].caOutcome = "ok")
        /\ ((hist[k].saves # <<>> \/ hist[k].writes > 0) => Issued(k))
        /\ (k > idx => hist[k] = NoHist)
        /\ \A f \in files : f.path.dir[2] = k => (k <= idx /\ Issued(k))
        /\ (pc \in {"csr", "post", "fingerprint", "mkdir", "write"} => idx <= nUnits)
C18_StepOfCurrentUnit ==
    /\ \A k \in Units \ {idx} : hist'[k] = hist[k]
    /\ (files' # files =>
           /\ \A f \in files' : f \in files \/ f.path.dir[2] = idx
           /\ \A f \in files : f \in files' \/ f.path.dir[2] = idx)
    /\ idx' \in {idx, idx + 1}
    /\ (idx' = idx + 1 => pc' = "loop")
    /\ (pc = "loop" => pc' \in {"loop", "csr", "done"})
    /\ (pc = "csr" => pc' \in {"post", "crashed"})
    /\ (pc = "post" => pc' \in {"fingerprint", "loop", "crashed"})
    /\ (pc = "fingerprint" => pc' \in {"mkdir", "loop", "crashed"})
    /\ (pc \in {"mkdir", "write"} => pc' \in {"mkdir", "write", "loop", "crashed"})
\* C18: both parts, the order within a unit and the steps of the run
C18_StageOrdering == [](C18_StagesInOrder) /\ [][C18_StepOfCurrentUnit]_vars
C18_Witness ==
    /\ pc = "done" /\ nUnits = 2
    /\ \A k \in 1..2 : hist[k].writes = 3 /\ hist[k].succ = 1

\* C19: success_count + fail_count is the number of units whose iteration has
\* ended; each of them is counted once, in one of the two counters; at the
\* summary the sum is the number of units.
C19_OutcomeAccounting ==
    /\ success_count + fail_count = idx - 1
    /\ \A k \in Units :
          /\ (k < idx => hist[k].succ + hist[k].fail = 1)
          /\ (k >= idx => hist[k].succ = 0 /\ hist[k].fail = 0)
    /\ success_count = Cardinality({k \in Units : hist[k].succ = 1})
    /\ fail_count = Cardinality({k \in Units : hist[k].fail = 1})
    /\ (pc = "done" => success_count + fail_count = nUnits)
C19_Witness ==
    pc = "done" /\ nUnits = 2 /\ success_count = 1 /\ fail_count = 1

====
